---- MODULE Spec2Model ----
(***************************************************************************)
(* Verification model of the face-recognition attendance system:           *)
(*   core/face_recognition.py   FaceRecognitionHandler (matcher, registry)  *)
(*   database/database.py       DatabaseManager (attendance, logs)          *)
(*   core/attendance_tracker.py AttendanceTracker (cooldown gate)           *)
(*   core/video_processor.py    VideoProcessor (track identity cache)       *)
(*                                                                         *)
(* Conventions.  None is Python's None.  Wall-clock time is an integer     *)
(* number of seconds; date and hour are derived from it.  A face embedding *)
(* is a 2-component integer vector.  A cosine similarity d/sqrt(nn) is     *)
(* kept exactly as the record [d, nn] (nn = 0 is the nan of a zero-norm    *)
(* vector), so comparisons are exact.  Strings that the code parses are    *)
(* sequences of one-character strings.                                     *)
(***************************************************************************)
EXTENDS Integers, Sequences, FiniteSets, TLC

None == "None"

\* ------------------------------------------------------------------------
\* Bounds of the model
\* ------------------------------------------------------------------------
MaxCoord == 2

\* ------------------------------------------------------------------------
\* core/face_recognition.py : similarity and best match
\* ------------------------------------------------------------------------
PersonIds == {"E001", "E002"}

EmbCoords == (0 - 1)..MaxCoord
Embeddings == EmbCoords \X EmbCoords

Dot(a, b) == a[1] * b[1] + a[2] * b[2]
NormSq(a) == Dot(a, a)

\* np.dot(e1, e2) / (norm(e1) * norm(e2)), kept as d / sqrt(nn)
calculate_similarity(encoding1, encoding2) ==
    [d |-> Dot(encoding1, encoding2), nn |-> NormSq(encoding1) * NormSq(encoding2)]

\* the float literal 0.0
ZeroSim == [d |-> 0, nn |-> 1]

\* a threshold of t tenths as a similarity value: t / sqrt(100)
SIMILARITY_THRESHOLD_TENTHS == 6
ThresholdSim(t) == [d |-> t, nn |-> 100]

IsNan(x) == x.nn = 0

\* x > y on floats: false when either side is nan
SimGT(x, y) ==
    /\ ~IsNan(x)
    /\ ~IsNan(y)
    /\ IF x.d >= 0 /\ y.d < 0 THEN TRUE
       ELSE IF x.d < 0 /\ y.d >= 0 THEN FALSE
       ELSE IF x.d >= 0 THEN x.d * x.d * y.nn > y.d * y.d * x.nn
       ELSE x.d * x.d * y.nn < y.d * y.d * x.nn

SimGE(x, y) == ~IsNan(x) /\ ~IsNan(y) /\ ~SimGT(y, x)

\* mutants of the loop condition of recognize_face
IsBetterNoThreshold(similarity, max_similarity, thr) ==
    SimGT(similarity, max_similarity)

IsBetterLastWins(similarity, max_similarity, thr) ==
    SimGE(similarity, max_similarity) /\ SimGT(similarity, ThresholdSim(thr))

\* similarity > max_similarity and similarity > self.similarity_threshold
IsBetter(similarity, max_similarity, thr) ==
    SimGT(similarity, max_similarity) /\ SimGT(similarity, ThresholdSim(thr))

NoMatch == [id |-> None, name |-> None, sim |-> ZeroSim]

RECURSIVE RecognizeLoop(_, _, _, _, _)
RecognizeLoop(faces, face_encoding, thr, i, best) ==
    IF i > Len(faces) THEN best
    ELSE LET similarity == calculate_similarity(face_encoding, faces[i].encoding)
         IN  IF IsBetter(similarity, best.sim, thr)
             THEN RecognizeLoop(faces, face_encoding, thr, i + 1,
                                [id |-> faces[i].id, name |-> faces[i].name,
                                 sim |-> similarity])
             ELSE RecognizeLoop(faces, face_encoding, thr, i + 1, best)

\* faces is registered_faces in iteration (insertion) order
recognize_face(faces, face_encoding, thr) ==
    IF Len(faces) = 0 THEN NoMatch
    ELSE RecognizeLoop(faces, face_encoding, thr, 1, NoMatch)

\* ------------------------------------------------------------------------
\* Wall clock: time.time(), date.today(), datetime.now()
\* ------------------------------------------------------------------------
SecondsPerDay == 86400
SecondsPerHour == 3600

\* date.today().isoformat(): the calendar day of second t
Today(t) == t \div SecondsPerDay

\* now.hour
HourOf(t) == (t % SecondsPerDay) \div SecondsPerHour

\* now.strftime('%H:%M:%S'): hours, minutes, seconds of the day
Strftime(t) ==
    <<HourOf(t), ((t % SecondsPerDay) % SecondsPerHour) \div 60, t % 60>>

\* ------------------------------------------------------------------------
\* database/database.py : parsing of shift_end
\* ------------------------------------------------------------------------
Digits == <<"0", "1", "2", "3", "4", "5", "6", "7", "8", "9">>

IsDigit(c) == \E k \in 1..10 : Digits[k] = c
DigitVal(c) == (CHOOSE k \in 1..10 : Digits[k] = c) - 1

\* str.split(':')[0]: the text before the first colon
RECURSIVE SplitHead(_)
SplitHead(str) ==
    IF Len(str) = 0 \/ Head(str) = ":" THEN <<>>
    ELSE <<Head(str)>> \o SplitHead(Tail(str))

\* int(text) on text made of digits, ':' and letters: a value, or ValueError
RECURSIVE DigitsValue(_)
DigitsValue(text) ==
    IF Len(text) = 0 THEN 0
    ELSE 10 * DigitsValue(SubSeq(text, 1, Len(text) - 1)) + DigitVal(text[Len(text)])

IntParses(text) == Len(text) > 0 /\ \A k \in 1..Len(text) : IsDigit(text[k])

DEFAULT_SHIFT_END_HOUR == 18

\* int(user_shift_end_str.split(':')[0]), 18 when that raises
ShiftEndHour(user_shift_end_str) ==
    IF IntParses(SplitHead(user_shift_end_str))
    THEN DigitsValue(SplitHead(user_shift_end_str))
    ELSE DEFAULT_SHIFT_END_HOUR

\* the shift_end texts an operator may have typed at registration or edit
ShiftEndChoices ==
    { <<"1", "8", ":", "0", "0">>, <<"0", "0", ":", "3", "0">>, <<"x">> }

\* ------------------------------------------------------------------------
\* database/database.py : tables and statements
\* ------------------------------------------------------------------------
\* SELECT id FROM attendance WHERE person_id = %s AND date = %s
RowsOf(attendance_t, person_id, day) ==
    { k \in 1..Len(attendance_t) :
        attendance_t[k].person_id = person_id /\ attendance_t[k].date = day }

\* mutant: the table has no UNIQUE KEY unique_attendance
InsertAllowedNoUniqueKey(persons_t, attendance_t, person_id, day) ==
    person_id \in DOMAIN persons_t

\* INSERT INTO attendance is accepted: the FOREIGN KEY finds the person and
\* UNIQUE KEY unique_attendance (person_id, date) finds no row
InsertAllowed(persons_t, attendance_t, person_id, day) ==
    /\ person_id \in DOMAIN persons_t
    /\ RowsOf(attendance_t, person_id, day) = {}

\* mutant: a new row is written without its leaving_time
NewAttendanceRowNoLeaving(person_id, day, current_time) ==
    [person_id |-> person_id, date |-> day, arrival_time |-> current_time,
     leaving_time |-> <<0, 0, 0>>, status |-> "Present"]

\* the row of the LOGIN branch: arrival_time = leaving_time = current_time
NewAttendanceRow(person_id, day, current_time) ==
    [person_id |-> person_id, date |-> day, arrival_time |-> current_time,
     leaving_time |-> current_time, status |-> "Present"]

\* mutant: the UPDATE also rewrites arrival_time
UpdateLeavingAlsoArrival(attendance_t, person_id, day, current_time) ==
    [k \in 1..Len(attendance_t) |->
        IF attendance_t[k].person_id = person_id /\ attendance_t[k].date = day
        THEN [attendance_t[k] EXCEPT !.leaving_time = current_time,
                                     !.arrival_time = current_time]
        ELSE attendance_t[k]]

\* UPDATE attendance SET leaving_time = %s WHERE person_id = %s AND date = %s
UpdateLeaving(attendance_t, person_id, day, current_time) ==
    [k \in 1..Len(attendance_t) |->
        IF attendance_t[k].person_id = person_id /\ attendance_t[k].date = day
        THEN [attendance_t[k] EXCEPT !.leaving_time = current_time]
        ELSE attendance_t[k]]

\* results of sync_daily_attendance: the tag and the text formatted into it
NoMsg == [tag |-> "None", time |-> <<0, 0, 0>>, ends |-> <<>>]
Msg(tag, current_time, ends) == [tag |-> tag, time |-> current_time, ends |-> ends]

\* what can go wrong with the database during one call
SyncFaults == {"none", "connect", "select_person", "select_attendance", "write"}
LogFaults == {"none", "connect", "write"}

\* mutant: the shift counts as over only after the shift-end hour has passed
ExistingRowMsgStrictlyAfter(user_shift_end_str, t) ==
    IF HourOf(t) > ShiftEndHour(user_shift_end_str)
    THEN Msg("LOGOUT UPDATE", Strftime(t), <<>>)
    ELSE Msg("Shift Ongoing", <<0, 0, 0>>, user_shift_end_str)

\* the result for a row that already existed: now.hour >= user_shift_end_hour
ExistingRowMsg(user_shift_end_str, t) ==
    IF HourOf(t) >= ShiftEndHour(user_shift_end_str)
    THEN Msg("LOGOUT UPDATE", Strftime(t), <<>>)
    ELSE Msg("Shift Ongoing", <<0, 0, 0>>, user_shift_end_str)

\* record is not None, for the SELECT on attendance
SelectAttendance(attendance_t, person_id, day) ==
    RowsOf(attendance_t, person_id, day) # {}

\* the INSERT or UPDATE of sync_daily_attendance and its result; record_found
\* and shift_end_str are what the two SELECTs of this call returned
\* day is what date.today() gave, t the second at which datetime.now() was read
SyncWriteOn(persons_t, attendance_t, person_id, shift_end_str, record_found, day, t) ==
    LET current_time == Strftime(t)
    IN  IF ~record_found
        THEN IF InsertAllowed(persons_t, attendance_t, person_id, day)
             THEN [raised |-> FALSE,
                   attendance |-> Append(attendance_t,
                                         NewAttendanceRow(person_id, day, current_time)),
                   msg |-> Msg("LOGIN", current_time, <<>>)]
             ELSE [raised |-> FALSE, attendance |-> attendance_t,
                   msg |-> Msg("DB Error", <<0, 0, 0>>, <<>>)]
        ELSE [raised |-> FALSE,
              attendance |-> UpdateLeaving(attendance_t, person_id, day, current_time),
              msg |-> ExistingRowMsg(shift_end_str, t)]

\* the same with both clock reads in the same second
SyncWrite(persons_t, attendance_t, person_id, user_shift_end_str, record_found, t) ==
    SyncWriteOn(persons_t, attendance_t, person_id, user_shift_end_str, record_found,
                Today(t), t)

\* mutant: no test of the row fetched from persons
sync_daily_attendanceNoPersonTest(persons_t, attendance_t, person_id, t, fault) ==
    IF fault = "connect"
    THEN [raised |-> TRUE, attendance |-> attendance_t, msg |-> NoMsg]
    ELSE IF fault \in {"select_person", "select_attendance", "write"}
    THEN [raised |-> FALSE, attendance |-> attendance_t,
          msg |-> Msg("DB Error", <<0, 0, 0>>, <<>>)]
    ELSE SyncWrite(persons_t, attendance_t, person_id,
                   IF person_id \in DOMAIN persons_t THEN persons_t[person_id] ELSE <<>>,
                   SelectAttendance(attendance_t, person_id, Today(t)), t)

\* sync_daily_attendance(person_id) at second t, as one uninterrupted call
sync_daily_attendance(persons_t, attendance_t, person_id, t, fault) ==
    IF fault = "connect"
    THEN [raised |-> TRUE, attendance |-> attendance_t, msg |-> NoMsg]
    ELSE IF fault = "select_person"
    THEN [raised |-> FALSE, attendance |-> attendance_t,
          msg |-> Msg("DB Error", <<0, 0, 0>>, <<>>)]
    ELSE IF person_id \notin DOMAIN persons_t
    THEN [raised |-> FALSE, attendance |-> attendance_t,
          msg |-> Msg("Error: Person not found", <<0, 0, 0>>, <<>>)]
    ELSE IF fault \in {"select_attendance", "write"}
    THEN [raised |-> FALSE, attendance |-> attendance_t,
          msg |-> Msg("DB Error", <<0, 0, 0>>, <<>>)]
    ELSE SyncWrite(persons_t, attendance_t, person_id, persons_t[person_id],
                   SelectAttendance(attendance_t, person_id, Today(t)), t)

\* log_raw_detection(person_id, person_name) at second t
log_raw_detection(persons_t, face_logs_t, person_id, person_name, t, fault) ==
    IF fault = "connect"
    THEN [raised |-> TRUE, face_logs |-> face_logs_t]
    ELSE IF fault = "write" \/ person_id \notin DOMAIN persons_t
    THEN [raised |-> FALSE, face_logs |-> face_logs_t]
    ELSE [raised |-> FALSE,
          face_logs |-> Append(face_logs_t,
                               [person_id |-> person_id, name |-> person_name,
                                date |-> Today(t), time |-> Strftime(t)])]

\* log_unknown_person(snapshot_path, face_encoding): rows are counted
log_unknown_person(unknown_faces_t, fault) ==
    IF fault = "connect"
    THEN [raised |-> TRUE, result |-> FALSE, unknown_faces |-> unknown_faces_t]
    ELSE IF fault = "write"
    THEN [raised |-> FALSE, result |-> FALSE, unknown_faces |-> unknown_faces_t]
    ELSE [raised |-> FALSE, result |-> TRUE, unknown_faces |-> unknown_faces_t + 1]

\* ------------------------------------------------------------------------
\* core/attendance_tracker.py : the cooldown gate
\* ------------------------------------------------------------------------
RAW_LOG_GAP == 90
SYNC_GAP == 5
ALERT_GAP == 15

\* dict[key] = value
Put(dict, key, value) ==
    [x \in (DOMAIN dict) \cup {key} |-> IF x = key THEN value ELSE dict[x]]

\* person_id not in self.last_log_time or current_ts - last > 90.0
RawLogDue(last_log, person_id, current_ts) ==
    person_id \notin DOMAIN last_log \/ current_ts - last_log[person_id] > RAW_LOG_GAP

\* person_id not in self.last_attendance_time or current_ts - last > 5.0
SyncDue(last_att, person_id, current_ts) ==
    person_id \notin DOMAIN last_att \/ current_ts - last_att[person_id] > SYNC_GAP

\* mutant: an alert is due as soon as 15 s have passed
AlertDueInclusive(last_alert, current_ts) == current_ts - last_alert >= ALERT_GAP

\* current_ts - self.last_unknown_alert_time > 15.0
AlertDue(last_alert, current_ts) == current_ts - last_alert > ALERT_GAP

\* pattern in text, for texts kept as sequences of characters
Contains(text, pattern) ==
    \E k \in 0..(Len(text) - Len(pattern)) :
        SubSeq(text, k + 1, k + Len(pattern)) = pattern

\* "LOGIN" in msg: the tag, or the shift_end text formatted into the message
MsgHasLogin(msg) ==
    msg.tag = "LOGIN" \/ Contains(msg.ends, <<"L", "O", "G", "I", "N">>)

MsgHasLogoutUpdate(msg) ==
    msg.tag = "LOGOUT UPDATE"
    \/ Contains(msg.ends, <<"L", "O", "G", "O", "U", "T", " ", "U", "P", "D", "A", "T", "E">>)

\* the voice feedback chosen from the sync result
VoiceFor(msg) ==
    IF MsgHasLogin(msg) THEN "welcome"
    ELSE IF MsgHasLogoutUpdate(msg) THEN "goodbye"
    ELSE "silent"

\* process_recognized_face(person_id, person_name) at second current_ts.
\* tr is the tracker's timers, db the tables; the result holds both after the
\* call, whether the call raised, and what it invoked.
process_recognized_face(tr, db, person_id, person_name, current_ts, raw_fault, sync_fault) ==
    LET raw_due == RawLogDue(tr.last_log_time, person_id, current_ts)
        lr == IF raw_due
              THEN log_raw_detection(db.persons, db.face_logs, person_id, person_name,
                                     current_ts, raw_fault)
              ELSE [raised |-> FALSE, face_logs |-> db.face_logs]
        log1 == IF raw_due /\ ~lr.raised
                THEN Put(tr.last_log_time, person_id, current_ts)
                ELSE tr.last_log_time
        sync_due == ~lr.raised /\ SyncDue(tr.last_attendance_time, person_id, current_ts)
        sr == IF sync_due
              THEN sync_daily_attendance(db.persons, db.attendance, person_id,
                                         current_ts, sync_fault)
              ELSE [raised |-> FALSE, attendance |-> db.attendance, msg |-> NoMsg]
        att1 == IF sync_due /\ ~sr.raised
                THEN Put(tr.last_attendance_time, person_id, current_ts)
                ELSE tr.last_attendance_time
    IN  [tr |-> [tr EXCEPT !.last_log_time = log1, !.last_attendance_time = att1],
         db |-> [db EXCEPT !.face_logs = lr.face_logs, !.attendance = sr.attendance],
         raised |-> lr.raised \/ sr.raised,
         raw_invoked |-> raw_due,
         sync_invoked |-> sync_due,
         msg |-> sr.msg,
         voice |-> IF sync_due /\ ~sr.raised THEN VoiceFor(sr.msg) ELSE "silent"]

\* process_unknown_person(snapshot_path, face_encoding) at second current_ts
process_unknown_person(tr, db, current_ts, fault) ==
    LET lu == log_unknown_person(db.unknown_faces, fault)
        due == ~lu.raised /\ AlertDue(tr.last_unknown_alert_time, current_ts)
    IN  [tr |-> IF due THEN [tr EXCEPT !.last_unknown_alert_time = current_ts] ELSE tr,
         db |-> [db EXCEPT !.unknown_faces = lu.unknown_faces],
         raised |-> lu.raised,
         result |-> lu.result,
         alert |-> due]

\* ------------------------------------------------------------------------
\* core/video_processor.py : tracks, boxes and the per-frame loop
\* ------------------------------------------------------------------------
Max(a, b) == IF a >= b THEN a ELSE b
Min(a, b) == IF a <= b THEN a ELSE b

\* interArea of calculate_iou, for boxes <<x1, y1, x2, y2>>
InterArea(boxA, boxB) ==
    Max(0, Min(boxA[3], boxB[3]) - Max(boxA[1], boxB[1]))
        * Max(0, Min(boxA[4], boxB[4]) - Max(boxA[2], boxB[2]))

BoxArea(box) == (box[3] - box[1]) * (box[4] - box[2])

\* calculate_iou(boxA, boxB) = i / (u + 1e-6), kept as the pair of integers
calculate_iou(boxA, boxB) ==
    [i |-> InterArea(boxA, boxB),
     u |-> BoxArea(boxA) + BoxArea(boxB) - InterArea(boxA, boxB)]

\* max_iou = 0.0
ZeroIou == [i |-> 0, u |-> 1]

\* iou > 0.5: i / (u + 1e-6) > 1/2 iff 2 i > u + 1e-6 iff 2 i > u, on integers
IouGtHalf(iou) == 2 * iou.i > iou.u

\* x > y for two such quotients: i1 (u2 + e) > i2 (u1 + e) with e = 1e-6
IouGT(x, y) ==
    LET D == x.i * y.u - y.i * x.u
    IN  D > 0 \/ (D = 0 /\ x.i > y.i)

\* iou > 0.5 and iou > max_iou
IsCloserFace(iou, max_iou) == IouGtHalf(iou) /\ IouGT(iou, max_iou)

\* best_face as an index into faces, 0 for None
RECURSIVE BestFaceLoop(_, _, _, _, _)
BestFaceLoop(faces, current_bbox, k, best_face, max_iou) ==
    IF k > Len(faces) THEN best_face
    ELSE LET iou == calculate_iou(current_bbox, faces[k].bbox)
         IN  IF IsCloserFace(iou, max_iou)
             THEN BestFaceLoop(faces, current_bbox, k + 1, k, iou)
             ELSE BestFaceLoop(faces, current_bbox, k + 1, best_face, max_iou)

BestFace(faces, current_bbox) == BestFaceLoop(faces, current_bbox, 1, 0, ZeroIou)

\* frame.shape, and the number of pixels of frame[y1:y2, x1:x2] after clamping
FRAME_W == 8
FRAME_H == 8

CropSize(current_bbox) ==
    Max(0, Min(FRAME_W, current_bbox[3]) - Max(0, current_bbox[1]))
        * Max(0, Min(FRAME_H, current_bbox[4]) - Max(0, current_bbox[2]))

\* mutant: every track is resolved again on every frame
IsExistingTrackNever(bindings, tracker_id) == FALSE

\* tracker_id in self.tracker_id_to_person
IsExistingTrack(bindings, tracker_id) == tracker_id \in DOMAIN bindings

\* unknown_person_callback and tracker_id not in self.logged_unknown_ids
UnknownDue(callbacks, logged, tracker_id) ==
    callbacks.unknown /\ tracker_id \notin logged

\* what the loop body did for one tracked detection
Event(tracker_id, case, recog, match, mark, unk) ==
    [tid |-> tracker_id, case |-> case, recog |-> recog, match |-> match,
     mark |-> mark, unk |-> unk]

\* one pass of the loop body of process_frame, for the tracked detection
\* (tracker_id, current_bbox); st carries tracker_id_to_person, logged_unknown_ids,
\* the events so far and whether a callback has raised (which ends the call).
\* fails names the callback that raises when invoked during this frame.
\* The field match of an event is the id recognize_face gives for the best face
\* of the track, computed for the record also where the code does not call it.
ProcessDetection(st, faces, registry, thr, tracker_id, current_bbox, callbacks, fails) ==
    LET best_face == BestFace(faces, current_bbox)
        found == IF best_face = 0 THEN NoMatch
                 ELSE recognize_face(registry, faces[best_face].embedding, thr)
    IN  IF st.raised THEN st
        ELSE IF IsExistingTrack(st.bindings, tracker_id)
        THEN [st EXCEPT
                !.events = Append(@, Event(tracker_id, "bound", FALSE, found.id,
                                           IF callbacks.mark
                                           THEN st.bindings[tracker_id].id ELSE None,
                                           FALSE)),
                !.raised = callbacks.mark /\ fails = "mark"]
        ELSE IF best_face = 0
        THEN [st EXCEPT
                !.events = Append(@, Event(tracker_id, "tracking", FALSE, None,
                                           None, FALSE))]
        ELSE IF found.id # None
        THEN [st EXCEPT
                !.bindings = Put(@, tracker_id, [id |-> found.id, name |-> found.name]),
                !.events = Append(@, Event(tracker_id, "resolved", TRUE, found.id,
                                           IF callbacks.mark THEN found.id ELSE None,
                                           FALSE)),
                !.raised = callbacks.mark /\ fails = "mark"]
        ELSE IF UnknownDue(callbacks, st.logged, tracker_id)
                /\ CropSize(current_bbox) > 0
        THEN [st EXCEPT
                !.logged = IF fails = "unknown" THEN @ ELSE @ \cup {tracker_id},
                !.events = Append(@, Event(tracker_id, "unknown", TRUE, None,
                                           None, TRUE)),
                !.raised = fails = "unknown"]
        ELSE [st EXCEPT
                !.events = Append(@, Event(tracker_id, "unknown", TRUE, None,
                                           None, FALSE))]

\* the loop over tracked_detections, a sequence of [tracker_id, xyxy]
RECURSIVE ProcessLoop(_, _, _, _, _, _, _, _)
ProcessLoop(st, faces, registry, thr, tracked, i, callbacks, fails) ==
    IF i > Len(tracked) THEN st
    ELSE ProcessLoop(ProcessDetection(st, faces, registry, thr, tracked[i].tracker_id,
                                      tracked[i].xyxy, callbacks, fails),
                     faces, registry, thr, tracked, i + 1, callbacks, fails)

\* process_frame(frame, mark_attendance_callback, unknown_person_callback), given
\* the detector's faces and the tracker's tracked detections for the frame
process_frame(bindings, logged, faces, registry, thr, tracked, callbacks, fails) ==
    ProcessLoop([bindings |-> bindings, logged |-> logged, events |-> <<>>,
                 raised |-> FALSE],
                faces, registry, thr, tracked, 1, callbacks, fails)

\* ------------------------------------------------------------------------
\* State
\* ------------------------------------------------------------------------
VARIABLES
    registered_faces,       \* FaceRecognitionHandler.registered_faces, in dict order
    similarity_threshold,   \* FaceRecognitionHandler.similarity_threshold, in tenths
    m_query,                \* the embedding handed to recognize_face
    m_pc,                   \* "call" before recognize_face is applied, "done" after
    m_out,                  \* what recognize_face returned
    now,                    \* the wall clock, in seconds
    clk,                    \* which of the observed instants the clock is at
    faults,                 \* how many database faults have occurred
    persons,                \* table persons: person_id -> shift_end
    attendance,             \* table attendance, rows in id order
    face_logs,              \* table face_logs, rows in id order
    unknown_faces,          \* table unknown_faces, number of rows
    last_log_time,          \* AttendanceTracker.last_log_time
    last_attendance_time,   \* AttendanceTracker.last_attendance_time
    last_unknown_alert_time,\* AttendanceTracker.last_unknown_alert_time
    g_call,                 \* observer: the step just taken and what it invoked
    g_sync_ts,              \* observer: per person, when sync_daily_attendance was last invoked
    g_raw_ts,               \* observer: per person, when log_raw_detection was last invoked
    g_alert_ts,             \* observer: when the unknown alert was last started
    c_pc,                   \* per database client: where its sync_daily_attendance call is
    c_loc,                  \* per database client: the locals of that call
    tracker_id_to_person,   \* VideoProcessor.tracker_id_to_person
    logged_unknown_ids,     \* VideoProcessor.logged_unknown_ids
    v_callbacks,            \* which callbacks the front end passes to process_frame
    v_op,                   \* observer: the VideoProcessor call just made
    g_watch,                \* observer: the track whose history is recorded
    v_event,                \* observer: what that call did for the watched track
    g_first,                \* observer: the person the watched track was first bound to
    g_logged,               \* observer: the unknown callback was invoked for it
    g_relogged,             \* observer: it was invoked for it more than once
    s_file,                 \* the file at face_db_path: its state and what it holds
    s_call,                 \* observer: the registry call just made and its result
    f_front,                \* the front end: "cli" (main.py) or "gui" (modern_gui.py)
    f_running,              \* gui: self.is_running; cli: inside the while loop
    f_pending,              \* gui: update_video_loop callbacks scheduled with root.after
    f_caps,                 \* per camera slot: "open" for an opened, unreleased capture
    f_view,                 \* gui: self.current_view
    f_bindings,             \* per camera: tracker_id_to_person of its VideoProcessor
    f_logged,               \* per camera: logged_unknown_ids of its VideoProcessor
    f_call,                 \* observer: the front-end step just taken
    f_deleted,              \* observer: the person ids deleted in the GUI
    v_dead,                 \* the tracker has destroyed the watched track
    v_seen                  \* observer: what the last frame held for the watched track

matchVars == <<m_query, m_pc, m_out>>
faceVars == <<registered_faces, similarity_threshold>>
clockVars == <<now, clk, faults>>
dbVars == <<persons, attendance, face_logs, unknown_faces>>
trVars == <<last_log_time, last_attendance_time, last_unknown_alert_time>>
obsVars == <<g_call, g_sync_ts, g_raw_ts, g_alert_ts>>

concVars == <<c_pc, c_loc>>

videoVars == <<tracker_id_to_person, logged_unknown_ids, v_callbacks,
               v_op, g_watch, v_event, g_first, g_logged, g_relogged>>

storeVars == <<s_file, s_call>>

feedVars ==
    <<f_front, f_running, f_pending, f_caps, f_view, f_bindings, f_logged, f_call, f_deleted>>

trackVars == <<v_dead, v_seen>>

vars == <<matchVars, faceVars, clockVars, dbVars, trVars, obsVars, concVars, videoVars,
          storeVars, feedVars, trackVars>>

NameOf(id) == IF id = "E001" THEN "Asha" ELSE "Ravi"

\* the registries: sequences of entries with pairwise distinct ids
RECURSIVE RegistriesOver(_)
RegistriesOver(ids) ==
    {<<>>} \cup
    UNION { { <<[id |-> i, name |-> NameOf(i), encoding |-> e]>> \o r :
                e \in Embeddings, r \in RegistriesOver(ids \ {i}) } : i \in ids }

\* update_similarity_threshold accepts 0.0 <= t <= 1.0 only
ThresholdChoices == {0, SIMILARITY_THRESHOLD_TENTHS, 10}

\* ------------------------------------------------------------------------
\* Initial values
\* ------------------------------------------------------------------------
MaxFaults == 1
MaxUnknownRows == 2

\* 23:59:50 of day 0
StartTime == SecondsPerDay - 10

\* the seconds after StartTime at which the clock is read: their differences
\* include 1, 5, 6, 90 and 91, and midnight falls at second 10
Instants == <<0, 5, 6, 91, 96, 97>>

\* the same for the unknown alert: differences of 15 and 16 among them
AlertInstants == <<0, 15, 16, 31, 32>>

EmptyDict == [x \in {} |-> 0]

NoTime == 0 - 1

\* the step record of a step that calls nothing
IdleCall(op) ==
    [op |-> op, pid |-> None, raw |-> FALSE, sync |-> FALSE, fault |-> "none",
     msg |-> NoMsg, raised |-> FALSE, voice |-> "silent", alert |-> FALSE]

\* AttendanceTracker.__init__ and an attendance database with no rows yet
GateInit ==
    /\ now = StartTime
    /\ clk = 1
    /\ faults = 0
    /\ persons = EmptyDict
    /\ attendance = <<>>
    /\ face_logs = <<>>
    /\ unknown_faces = 0
    /\ last_log_time = EmptyDict
    /\ last_attendance_time = EmptyDict
    /\ last_unknown_alert_time = 0
    /\ g_call = IdleCall("init")
    /\ g_sync_ts = [p \in PersonIds |-> NoTime]
    /\ g_raw_ts = [p \in PersonIds |-> NoTime]
    /\ g_alert_ts = NoTime

MatchIdle ==
    /\ m_query = <<0, 0>>
    /\ m_pc = "idle"
    /\ m_out = NoMatch

\* the application instances that use the same MySQL database
Clients == {1, 2}

NoLocals == [pid |-> None, t |-> NoTime, shift_end |-> <<>>, record_found |-> FALSE,
             msg |-> NoMsg]

ConcIdle ==
    /\ c_pc = [c \in Clients |-> "idle"]
    /\ c_loc = [c \in Clients |-> NoLocals]

MaxTracks == 2
TrackIds == 1..MaxTracks

\* no tracked detection of the watched track in the call just made
NoEvent == [tid |-> 0, case |-> "absent", recog |-> FALSE, match |-> None,
            mark |-> None, unk |-> FALSE]

\* the face registry file is not looked at
NoStoreCall == [op |-> "init", pid |-> None, ret |-> FALSE, raised |-> FALSE]

StoreIdle ==
    /\ s_file = [state |-> "missing", data |-> <<>>]
    /\ s_call = NoStoreCall

\* camera slots of the front ends: cv2.VideoCapture(0) and, in the GUI, a second
Cameras == {1, 2}

NoFeedCall == [op |-> "init", raised |-> FALSE, failed |-> FALSE, read |-> {}, got |-> {},
               processed |-> {}]

\* FaceAttendancePro.__init__ / AttendanceSystem.__init__: no feed started
FeedIdle ==
    /\ f_front = "gui"
    /\ f_running = FALSE
    /\ f_pending = 0
    /\ f_caps = [c \in Cameras |-> "none"]
    /\ f_view = "dashboard"
    /\ f_bindings = [c \in Cameras |-> EmptyDict]
    /\ f_logged = [c \in Cameras |-> {}]
    /\ f_call = NoFeedCall
    /\ f_deleted = {}

\* what a frame held for the watched track: whether the tracker reported it and
\* whom recognize_face names for the face that overlaps it best
NotSeen == [reported |-> FALSE, match |-> None]

\* the tracker has destroyed no track
TrackIdle ==
    /\ v_dead = FALSE
    /\ v_seen = NotSeen

\* VideoProcessor.__init__
VideoIdle ==
    /\ tracker_id_to_person = EmptyDict
    /\ logged_unknown_ids = {}
    /\ v_callbacks = [mark |-> FALSE, unknown |-> FALSE]
    /\ v_op = "init"
    /\ g_watch = 1
    /\ v_event = NoEvent
    /\ g_first = None
    /\ g_logged = FALSE
    /\ g_relogged = FALSE

\* ------------------------------------------------------------------------
\* SpecMatch: recognize_face applied to every registry, query and threshold
\* ------------------------------------------------------------------------
InitMatch ==
    /\ registered_faces \in RegistriesOver(PersonIds)
    /\ similarity_threshold \in ThresholdChoices
    /\ m_query \in Embeddings
    /\ m_pc = "call"
    /\ m_out = NoMatch
    /\ GateInit
    /\ ConcIdle
    /\ VideoIdle
    /\ TrackIdle
    /\ StoreIdle
    /\ FeedIdle

Recognize ==
    /\ m_pc = "call"
    /\ m_pc' = "done"
    /\ m_out' = recognize_face(registered_faces, m_query, similarity_threshold)
    /\ UNCHANGED <<registered_faces, similarity_threshold, m_query>>
    /\ UNCHANGED <<clockVars, dbVars, trVars, obsVars, concVars, videoVars, storeVars, feedVars, trackVars>>

NextMatch == Recognize

SpecMatch == InitMatch /\ [][NextMatch]_vars

\* similarity of registry entry i to the query
SimOf(i) == calculate_similarity(m_query, registered_faces[i].encoding)

\* C9: whenever recognize_face returns a person_id, the returned score is the
\* similarity of that person's registered encoding to the query, and it is
\* strictly greater than similarity_threshold.
C9_ScoreExceedsThreshold ==
    (m_pc = "done" /\ m_out.id # None) =>
        /\ \E i \in 1..Len(registered_faces) :
              /\ registered_faces[i].id = m_out.id
              /\ registered_faces[i].name = m_out.name
              /\ m_out.sim = SimOf(i)
        /\ SimGT(m_out.sim, ThresholdSim(similarity_threshold))

\* a match was returned although another entry stayed at or below the threshold
C9_Witness ==
    /\ m_pc = "done"
    /\ m_out.id # None
    /\ similarity_threshold = SIMILARITY_THRESHOLD_TENTHS
    /\ \E i \in 1..Len(registered_faces) :
          /\ SimGT(SimOf(i), ZeroSim)
          /\ ~SimGT(SimOf(i), ThresholdSim(similarity_threshold))

\* the entries whose similarity strictly exceeds the threshold
Qualifying ==
    { i \in 1..Len(registered_faces) :
        SimGT(SimOf(i), ThresholdSim(similarity_threshold)) }

\* the reference best match: greatest similarity among the qualifying entries,
\* the first in iteration order among those that tie for the greatest
RefBestMatch ==
    IF Qualifying = {} THEN NoMatch
    ELSE LET b == CHOOSE i \in Qualifying :
                    /\ \A j \in Qualifying : SimGE(SimOf(i), SimOf(j))
                    /\ \A j \in Qualifying : j < i => SimGT(SimOf(i), SimOf(j))
         IN  [id |-> registered_faces[b].id, name |-> registered_faces[b].name,
              sim |-> SimOf(b)]

\* C10: recognize_face returns the reference best match: the entry of greatest
\* similarity among those strictly above the threshold, the first in iteration
\* order on a tie, and (None, None, 0.0) when the registry is empty.
C10_EqualsReference ==
    m_pc = "done" =>
        /\ m_out = RefBestMatch
        /\ Len(registered_faces) = 0 => m_out = NoMatch

\* two entries tie for the greatest qualifying similarity; the first was returned
C10_Witness ==
    /\ m_pc = "done"
    /\ Len(registered_faces) = 2
    /\ SimGE(SimOf(1), SimOf(2))
    /\ SimGE(SimOf(2), SimOf(1))
    /\ registered_faces[1].encoding # registered_faces[2].encoding
    /\ 1 \in Qualifying
    /\ m_out.id = registered_faces[1].id

\* ------------------------------------------------------------------------
\* Spec: one AttendanceTracker over the database, called frame after frame
\* ------------------------------------------------------------------------
ShiftEnd1800 == <<"1", "8", ":", "0", "0">>
ShiftEnd0030 == <<"0", "0", ":", "3", "0">>

\* the persons tables the runs start from: one registered person with each
\* shift_end text (the other id is then unknown to the database), or both
PersonTables ==
    { [x \in {"E001"} |-> c] : c \in ShiftEndChoices }
    \cup { [x \in PersonIds |-> IF x = "E001" THEN ShiftEnd1800 ELSE ShiftEnd0030] }

Tr == [last_log_time |-> last_log_time,
       last_attendance_time |-> last_attendance_time,
       last_unknown_alert_time |-> last_unknown_alert_time]

Db == [persons |-> persons, attendance |-> attendance,
       face_logs |-> face_logs, unknown_faces |-> unknown_faces]

FaceIdle ==
    /\ registered_faces = <<>>
    /\ similarity_threshold = SIMILARITY_THRESHOLD_TENTHS

Init ==
    /\ FaceIdle
    /\ MatchIdle
    /\ ConcIdle
    /\ VideoIdle
    /\ TrackIdle
    /\ StoreIdle
    /\ FeedIdle
    /\ now = StartTime
    /\ clk = 1
    /\ faults = 0
    /\ persons \in PersonTables
    /\ attendance = <<>>
    /\ face_logs = <<>>
    /\ unknown_faces = 0
    /\ last_log_time = EmptyDict
    /\ last_attendance_time = EmptyDict
    /\ last_unknown_alert_time = 0
    /\ g_call = IdleCall("init")
    /\ g_sync_ts = [p \in PersonIds |-> NoTime]
    /\ g_raw_ts = [p \in PersonIds |-> NoTime]
    /\ g_alert_ts = NoTime

\* time passes: the clock is next read at a later instant
Tick(j) ==
    /\ j > clk
    /\ clk' = j
    /\ now' = StartTime + Instants[j]
    /\ g_call' = IdleCall("tick")
    /\ UNCHANGED <<matchVars, faceVars, faults, dbVars, trVars,
                   g_sync_ts, g_raw_ts, g_alert_ts, concVars, videoVars, storeVars, feedVars, trackVars>>

FaultCount(raw_fault, sync_fault) ==
    (IF raw_fault = "none" THEN 0 ELSE 1) + (IF sync_fault = "none" THEN 0 ELSE 1)

\* a frame loop calls process_recognized_face(person_id, person_name)
ProcessRecognizedFace(person_id, raw_fault, sync_fault) ==
    \E r \in {process_recognized_face(Tr, Db, person_id, NameOf(person_id), now,
                                      raw_fault, sync_fault)} :
        /\ faults + FaultCount(raw_fault, sync_fault) <= MaxFaults
        /\ faults' = faults + FaultCount(raw_fault, sync_fault)
        /\ last_log_time' = r.tr.last_log_time
        /\ last_attendance_time' = r.tr.last_attendance_time
        /\ attendance' = r.db.attendance
        /\ face_logs' = r.db.face_logs
        /\ g_call' = [IdleCall("recognized") EXCEPT
                        !.pid = person_id, !.raw = r.raw_invoked,
                        !.sync = r.sync_invoked, !.fault = sync_fault,
                        !.msg = r.msg, !.raised = r.raised, !.voice = r.voice]
        /\ g_raw_ts' = IF r.raw_invoked THEN [g_raw_ts EXCEPT ![person_id] = now]
                       ELSE g_raw_ts
        /\ g_sync_ts' = IF r.sync_invoked THEN [g_sync_ts EXCEPT ![person_id] = now]
                        ELSE g_sync_ts
        /\ UNCHANGED <<matchVars, faceVars, now, clk, persons, unknown_faces,
                       last_unknown_alert_time, g_alert_ts, concVars, videoVars, storeVars, feedVars, trackVars>>

RecognizedFace ==
    \E person_id \in PersonIds :
        \E raw_fault \in (IF RawLogDue(last_log_time, person_id, now)
                          THEN LogFaults ELSE {"none"}) :
            \E sync_fault \in (IF raw_fault # "connect"
                                  /\ SyncDue(last_attendance_time, person_id, now)
                               THEN SyncFaults ELSE {"none"}) :
                ProcessRecognizedFace(person_id, raw_fault, sync_fault)

ClockAdvance == \E j \in 1..Len(Instants) : Tick(j)

\* the same between two calls of process_unknown_person
TickUnknown(j) ==
    /\ j > clk
    /\ clk' = j
    /\ now' = StartTime + AlertInstants[j]
    /\ g_call' = IdleCall("tick")
    /\ UNCHANGED <<matchVars, faceVars, faults, dbVars, trVars,
                   g_sync_ts, g_raw_ts, g_alert_ts, concVars, videoVars, storeVars, feedVars, trackVars>>

ClockAdvanceUnknown == \E j \in 1..Len(AlertInstants) : TickUnknown(j)

Next == ClockAdvance \/ RecognizedFace

Spec == Init /\ [][Next]_vars

\* the step just taken called process_recognized_face for p and reached the sync
SyncedFor(p) ==
    g_call'.op = "recognized" /\ g_call'.pid = p /\ g_call'.sync

\* C1: two process_recognized_face calls for the same person whose timestamps
\* are 5 seconds or less apart perform at most one sync_daily_attendance call:
\* whenever a call invokes the sync, the previous invocation of the sync for
\* that person lies more than 5 s back.
C1_AtMostOneSyncPerWindow ==
    [][\A p \in PersonIds :
          (SyncedFor(p) /\ g_sync_ts[p] # NoTime) => now' - g_sync_ts[p] > SYNC_GAP]_vars

\* C2: log_raw_detection is invoked at most once per person in any 90-second
\* window: whenever a call invokes it, its previous invocation for that person
\* lies more than 90 s back, and the person's raw-log timestamp becomes the
\* current time.
C2_AtMostOneRawLogPerWindow ==
    [][\A p \in PersonIds :
          (g_call'.op = "recognized" /\ g_call'.pid = p /\ g_call'.raw) =>
              /\ g_raw_ts[p] # NoTime => now' - g_raw_ts[p] > RAW_LOG_GAP
              /\ p \in DOMAIN last_log_time' /\ last_log_time'[p] = now']_vars

\* C3: when sync_daily_attendance runs (its statements succeed) for a
\* registered person with no attendance row for today, exactly one row is
\* inserted, with arrival_time = leaving_time = the current time and status
\* 'Present', every other row is left as it was, and the result is tagged
\* LOGIN, whatever the hour.
C3_FirstSyncInsertsLogin ==
    [][\A p \in PersonIds :
          (/\ SyncedFor(p)
           /\ g_call'.fault = "none"
           /\ p \in DOMAIN persons
           /\ \A k \in 1..Len(attendance) :
                 ~(attendance[k].person_id = p /\ attendance[k].date = Today(now)))
          =>
          (/\ attendance' = Append(attendance,
                                   [person_id |-> p, date |-> Today(now),
                                    arrival_time |-> Strftime(now),
                                    leaving_time |-> Strftime(now),
                                    status |-> "Present"])
           /\ g_call'.msg.tag = "LOGIN"
           /\ g_call'.msg.time = Strftime(now)
           /\ ~g_call'.raised)]_vars

\* the first sync of the day came at an hour at or past the person's shift end
C3_Witness ==
    /\ g_call.op = "recognized"
    /\ g_call.msg.tag = "LOGIN"
    /\ g_call.pid \in DOMAIN persons
    /\ persons[g_call.pid] = ShiftEnd1800
    /\ HourOf(now) = 23
    /\ \E k \in 1..Len(attendance) :
          /\ attendance[k].person_id = g_call.pid
          /\ attendance[k].date = Today(now)
          /\ attendance[k].arrival_time = Strftime(now)
          /\ attendance[k].leaving_time = Strftime(now)

\* the hour part of the shift_end texts of this model, 18 for the unparseable one
RefShiftEndHour(str) ==
    IF str = ShiftEnd1800 THEN 18
    ELSE IF str = ShiftEnd0030 THEN 0
    ELSE 18

C22_SyncAlwaysSetsTimer ==
    [][\A p \in PersonIds :
          SyncedFor(p) =>
              /\ p \in DOMAIN last_attendance_time'
              /\ last_attendance_time'[p] = now']_vars

\* C27: a sync for a person_id with no row in persons returns "Error: Person
\* not found" when the database answers, writes no attendance row on any
\* outcome, and every attendance row belongs to a person in persons.
C27_UnknownPersonWritesNothing ==
    [][/\ \A p \in PersonIds :
             (SyncedFor(p) /\ p \notin DOMAIN persons) =>
                 /\ attendance' = attendance
                 /\ g_call'.fault = "none" =>
                       /\ g_call'.msg.tag = "Error: Person not found"
                       /\ ~g_call'.raised
       /\ \A k \in 1..Len(attendance') :
             attendance'[k].person_id \in DOMAIN persons']_vars

\* a sync was performed for an id that persons does not hold while another
\* person has attendance rows
C27_Witness ==
    /\ g_call.op = "recognized"
    /\ g_call.sync
    /\ g_call.fault = "none"
    /\ g_call.pid \notin DOMAIN persons
    /\ g_call.msg.tag = "Error: Person not found"
    /\ Len(attendance) > 0

\* C28: once an attendance row exists, no step changes anything of it but
\* leaving_time, and a sync changes at most the row of the synced person for
\* the current date; rows are never removed.
C28_SyncWritesLeavingTimeOnly ==
    [][/\ Len(attendance') >= Len(attendance)
       /\ \A k \in 1..Len(attendance) :
             /\ attendance'[k].person_id = attendance[k].person_id
             /\ attendance'[k].date = attendance[k].date
             /\ attendance'[k].arrival_time = attendance[k].arrival_time
             /\ attendance'[k].status = attendance[k].status
             /\ attendance'[k] # attendance[k] =>
                   /\ g_call'.op = "recognized"
                   /\ g_call'.sync
                   /\ attendance[k].person_id = g_call'.pid
                   /\ attendance[k].date = Today(now)]_vars

\* two persons have rows; the last sync moved the leaving_time of one of them
\* away from its arrival_time and left the other row as it was inserted
C28_Witness ==
    /\ g_call.op = "recognized"
    /\ g_call.sync
    /\ ~g_call.raised
    /\ Len(attendance) = 2
    /\ \E k, j \in 1..2 :
          /\ k # j
          /\ attendance[k].person_id = g_call.pid
          /\ attendance[k].leaving_time = Strftime(now)
          /\ attendance[k].arrival_time # attendance[k].leaving_time
          /\ attendance[j].person_id # g_call.pid
          /\ attendance[j].arrival_time = attendance[j].leaving_time

\* a shift_end text as the registration form accepts it (any text)
ShiftEndLogin == <<"L", "O", "G", "I", "N">>

\* persons tables with such a text, and with a shift that is over all day
VoiceTables ==
    { [x \in {"E001"} |-> ShiftEndLogin], [x \in {"E001"} |-> ShiftEnd0030] }

InitVoice ==
    /\ FaceIdle
    /\ MatchIdle
    /\ ConcIdle
    /\ VideoIdle
    /\ TrackIdle
    /\ StoreIdle
    /\ FeedIdle
    /\ now = StartTime
    /\ clk = 1
    /\ faults = 0
    /\ persons \in VoiceTables
    /\ attendance = <<>>
    /\ face_logs = <<>>
    /\ unknown_faces = 0
    /\ last_log_time = EmptyDict
    /\ last_attendance_time = EmptyDict
    /\ last_unknown_alert_time = 0
    /\ g_call = IdleCall("init")
    /\ g_sync_ts = [p \in PersonIds |-> NoTime]
    /\ g_raw_ts = [p \in PersonIds |-> NoTime]
    /\ g_alert_ts = NoTime

SpecVoice == InitVoice /\ [][Next]_vars

\* C24: a performed sync is followed by the welcome announcement exactly when
\* its result is LOGIN, by the goodbye announcement exactly when it is LOGOUT
\* UPDATE, and by none for Shift Ongoing and for error results; a call whose
\* sync is suppressed by the cooldown announces nothing.
C24_VoiceFollowsLabel ==
    [][g_call'.op = "recognized" =>
          g_call'.voice =
              IF g_call'.sync /\ g_call'.msg.tag = "LOGIN" THEN "welcome"
              ELSE IF g_call'.sync /\ g_call'.msg.tag = "LOGOUT UPDATE" THEN "goodbye"
              ELSE "silent"]_vars

\* C29: while the row of a person for the current date exists, no sync for that
\* person is followed by the welcome announcement, and every performed sync at
\* or after the shift-end hour is followed by the goodbye announcement.
C29_WelcomeOncePerDay ==
    [][\A p \in PersonIds :
          (/\ SyncedFor(p)
           /\ p \in DOMAIN persons
           /\ RowsOf(attendance, p, Today(now)) # {}) =>
              /\ g_call'.voice # "welcome"
              /\ (g_call'.fault = "none" /\ HourOf(now) >= RefShiftEndHour(persons[p]))
                    => g_call'.voice = "goodbye"]_vars

\* C11: a database failure during an attendance sync, the failure to obtain a
\* connection included, comes back from sync_daily_attendance as an
\* error-tagged string and is never raised out of process_recognized_face.
C11_SyncFailureNeverRaised ==
    [][\A p \in PersonIds :
          (SyncedFor(p) /\ g_call'.fault # "none") =>
              /\ ~g_call'.raised
              /\ g_call'.msg.tag \in {"DB Error", "Error: Person not found"}]_vars

\* ------------------------------------------------------------------------
\* SpecUnknown: process_unknown_person called frame after frame
\* ------------------------------------------------------------------------
InitUnknown ==
    /\ FaceIdle
    /\ MatchIdle
    /\ ConcIdle
    /\ VideoIdle
    /\ TrackIdle
    /\ StoreIdle
    /\ FeedIdle
    /\ GateInit

\* a frame loop calls process_unknown_person(snapshot_path, face_encoding)
ProcessUnknownPerson(fault) ==
    \E r \in {process_unknown_person(Tr, Db, now, fault)} :
        /\ unknown_faces < MaxUnknownRows
        /\ faults + FaultCount(fault, "none") <= MaxFaults
        /\ faults' = faults + FaultCount(fault, "none")
        /\ last_unknown_alert_time' = r.tr.last_unknown_alert_time
        /\ unknown_faces' = r.db.unknown_faces
        /\ g_call' = [IdleCall("unknown") EXCEPT
                        !.fault = fault, !.raised = r.raised, !.alert = r.alert]
        /\ g_alert_ts' = IF r.alert THEN now ELSE g_alert_ts
        /\ UNCHANGED <<matchVars, faceVars, now, clk, persons, attendance, face_logs,
                       last_log_time, last_attendance_time, g_sync_ts, g_raw_ts,
                       concVars, videoVars, storeVars, feedVars, trackVars>>

UnknownPerson == \E fault \in LogFaults : ProcessUnknownPerson(fault)

NextUnknown == ClockAdvanceUnknown \/ UnknownPerson

SpecUnknown == InitUnknown /\ [][NextUnknown]_vars

\* C8: the background unknown alert is started at most once in any 15-second
\* window, however many process_unknown_person calls arrive: it is started only
\* when more than 15 s have passed since last_unknown_alert_time (and since the
\* previous start), and last_unknown_alert_time is set to the current time.
C8_AlertAtMostOncePerWindow ==
    [][(g_call'.op = "unknown" /\ g_call'.alert) =>
          /\ now - last_unknown_alert_time > ALERT_GAP
          /\ g_alert_ts # NoTime => now - g_alert_ts > ALERT_GAP
          /\ last_unknown_alert_time' = now]_vars

\* a call exactly 15 s after an alert logged its unknown person without an alert
C8_Witness ==
    /\ g_call.op = "unknown"
    /\ ~g_call.alert
    /\ ~g_call.raised
    /\ g_alert_ts # NoTime
    /\ now - g_alert_ts = ALERT_GAP
    /\ unknown_faces = 2

\* ------------------------------------------------------------------------
\* SpecConc: sync_daily_attendance calls of two clients of the same database,
\* interleaved between their SELECTs and their INSERT or UPDATE
\* ------------------------------------------------------------------------
InitConc ==
    /\ FaceIdle
    /\ MatchIdle
    /\ ConcIdle
    /\ VideoIdle
    /\ TrackIdle
    /\ StoreIdle
    /\ FeedIdle
    /\ now = StartTime
    /\ clk = 1
    /\ faults = 0
    /\ persons \in PersonTables
    /\ attendance = <<>>
    /\ face_logs = <<>>
    /\ unknown_faces = 0
    /\ last_log_time = EmptyDict
    /\ last_attendance_time = EmptyDict
    /\ last_unknown_alert_time = 0
    /\ g_call = IdleCall("init")
    /\ g_sync_ts = [p \in PersonIds |-> NoTime]
    /\ g_raw_ts = [p \in PersonIds |-> NoTime]
    /\ g_alert_ts = NoTime

\* client c enters sync_daily_attendance(person_id): it reads the clock and
\* runs the SELECT on persons and the SELECT on attendance
SyncBegin(c, person_id) ==
    /\ c_pc[c] \in {"idle", "done"}
    /\ IF person_id \notin DOMAIN persons
       THEN /\ c_pc' = [c_pc EXCEPT ![c] = "done"]
            /\ c_loc' = [c_loc EXCEPT ![c] =
                            [NoLocals EXCEPT
                                !.pid = person_id, !.t = now,
                                !.msg = Msg("Error: Person not found",
                                            <<0, 0, 0>>, <<>>)]]
       ELSE /\ c_pc' = [c_pc EXCEPT ![c] = "selected"]
            /\ c_loc' = [c_loc EXCEPT ![c] =
                            [NoLocals EXCEPT
                                !.pid = person_id, !.t = now,
                                !.shift_end = persons[person_id],
                                !.record_found =
                                    SelectAttendance(attendance, person_id, Today(now))]]
    /\ g_call' = IdleCall("begin")
    /\ UNCHANGED <<matchVars, faceVars, clockVars, dbVars, trVars,
                   g_sync_ts, g_raw_ts, g_alert_ts, videoVars, storeVars, feedVars, trackVars>>

\* client c runs its INSERT or UPDATE on the table as it is now, and returns
SyncFinish(c) ==
    /\ c_pc[c] = "selected"
    /\ \E r \in {SyncWrite(persons, attendance, c_loc[c].pid, c_loc[c].shift_end,
                           c_loc[c].record_found, c_loc[c].t)} :
          /\ attendance' = r.attendance
          /\ c_loc' = [c_loc EXCEPT ![c].msg = r.msg]
    /\ c_pc' = [c_pc EXCEPT ![c] = "done"]
    /\ g_call' = IdleCall("finish")
    /\ UNCHANGED <<matchVars, faceVars, clockVars, persons, face_logs, unknown_faces,
                   trVars, g_sync_ts, g_raw_ts, g_alert_ts, videoVars, storeVars, feedVars, trackVars>>

\* the instants at which the clients read the clock, the last one on the next day
ConcInstants == <<0, 6, 12>>

\* time passes between two statements of the clients
TickConc(j) ==
    /\ j > clk
    /\ clk' = j
    /\ now' = StartTime + ConcInstants[j]
    /\ g_call' = IdleCall("tick")
    /\ UNCHANGED <<matchVars, faceVars, faults, dbVars, trVars,
                   g_sync_ts, g_raw_ts, g_alert_ts, concVars, videoVars, storeVars, feedVars, trackVars>>

ClockAdvanceConc == \E j \in 1..Len(ConcInstants) : TickConc(j)

ClientStep ==
    \E c \in Clients :
        \/ \E person_id \in PersonIds : SyncBegin(c, person_id)
        \/ SyncFinish(c)

NextConc == ClockAdvanceConc \/ ClientStep

SpecConc == InitConc /\ [][NextConc]_vars

\* C5: in every reachable state the attendance table holds at most one row per
\* (person_id, date), under every interleaving of the sync_daily_attendance
\* calls of the clients.
C5_OneRowPerPersonDate ==
    \A k1, k2 \in 1..Len(attendance) :
        (/\ attendance[k1].person_id = attendance[k2].person_id
         /\ attendance[k1].date = attendance[k2].date) => k1 = k2

\* two clients both found no row for the same person and day; one inserted and
\* returned LOGIN, the other's insert was refused and it returned an error
C5_Witness ==
    \E c1, c2 \in Clients :
        /\ c1 # c2
        /\ c_pc[c1] = "done" /\ c_pc[c2] = "done"
        /\ c_loc[c1].pid = c_loc[c2].pid
        /\ Today(c_loc[c1].t) = Today(c_loc[c2].t)
        /\ ~c_loc[c1].record_found /\ ~c_loc[c2].record_found
        /\ c_loc[c1].msg.tag = "LOGIN"
        /\ c_loc[c2].msg.tag = "DB Error"
        /\ Cardinality(RowsOf(attendance, c_loc[c1].pid, Today(c_loc[c1].t))) = 1

\* ------------------------------------------------------------------------
\* SpecVideo: process_frame and clear_cache calls on one VideoProcessor
\* ------------------------------------------------------------------------
\* two registered persons with orthogonal encodings
VideoRegistry ==
    <<[id |-> "E001", name |-> NameOf("E001"), encoding |-> <<1, 0>>],
      [id |-> "E002", name |-> NameOf("E002"), encoding |-> <<0, 1>>]>>

\* embeddings of detected faces: of E001, of E002, of nobody registered
EmbE001 == <<1, 0>>
EmbE002 == <<0, 1>>
EmbStranger == <<0 - 1, 0>>

\* the box of a tracked detection, and boxes of detected faces that overlap it
\* with IOU 1, 2/3 and 1/2
TrackBox == <<0, 0, 2, 1>>
BoxSame == <<0, 0, 2, 1>>
BoxNear == <<0, 0, 3, 1>>
BoxHalf == <<0, 0, 4, 1>>

Face(bbox, embedding) == [bbox |-> bbox, embedding |-> embedding]

\* detect_faces(frame): no face; a face of E001 at IOU 1/2; a face of E001 on
\* the track; two faces with the closer one second (of E002), and with the
\* closer one first (of a stranger)
FaceLists ==
    { <<>>,
      <<Face(BoxHalf, EmbE001)>>,
      <<Face(BoxSame, EmbE001)>>,
      <<Face(BoxNear, EmbE001), Face(BoxSame, EmbE002)>>,
      <<Face(BoxSame, EmbStranger), Face(BoxNear, EmbE001)>> }

\* main.py passes both callbacks, modern_gui.py the attendance callback only
CallbackChoices == { [mark |-> TRUE, unknown |-> TRUE],
                     [mark |-> TRUE, unknown |-> FALSE] }

\* the callback that raises when invoked during a frame
CallbackFaults(callbacks) ==
    {"none", "mark"} \cup (IF callbacks.unknown THEN {"unknown"} ELSE {})

InitVideo ==
    /\ TrackIdle
    /\ MatchIdle
    /\ ConcIdle
    /\ StoreIdle
    /\ FeedIdle
    /\ GateInit
    /\ registered_faces = VideoRegistry
    /\ similarity_threshold = SIMILARITY_THRESHOLD_TENTHS
    /\ tracker_id_to_person = EmptyDict
    /\ logged_unknown_ids = {}
    /\ v_callbacks \in CallbackChoices
    /\ v_op = "init"
    /\ g_watch \in TrackIds
    /\ v_event = NoEvent
    /\ g_first = None
    /\ g_logged = FALSE
    /\ g_relogged = FALSE

\* tracked_detections for a set of track ids, in increasing id order
RECURSIVE TrackedOf(_)
TrackedOf(ids) ==
    IF ids = {} THEN <<>>
    ELSE LET t == CHOOSE x \in ids : \A y \in ids : x <= y
         IN  <<[tracker_id |-> t, xyxy |-> TrackBox]>> \o TrackedOf(ids \ {t})

\* what a call did for track t, NoEvent if the loop did not get to it
EventOf(events, t) ==
    IF \E k \in 1..Len(events) : events[k].tid = t
    THEN events[CHOOSE k \in 1..Len(events) : events[k].tid = t]
    ELSE NoEvent

\* one process_frame call: the tracker reports the tracks in reported and the
\* detector the faces in faces
ProcessFrame(reported, faces, fails) ==
    /\ \E r \in {process_frame(tracker_id_to_person, logged_unknown_ids, faces,
                               registered_faces, similarity_threshold,
                               TrackedOf(reported), v_callbacks, fails)} :
          \E e \in {EventOf(r.events, g_watch)} :
              /\ tracker_id_to_person' = r.bindings
              /\ logged_unknown_ids' = r.logged
              /\ v_event' = e
              /\ g_first' = IF g_first = None /\ g_watch \in DOMAIN r.bindings
                            THEN r.bindings[g_watch].id ELSE g_first
              /\ g_logged' = (g_logged \/ e.unk)
              /\ g_relogged' = (g_relogged \/ (g_logged /\ e.unk))
    /\ v_op' = "frame"
    /\ UNCHANGED <<matchVars, faceVars, clockVars, dbVars, trVars, obsVars, concVars,
                   storeVars, feedVars,
                   v_callbacks, g_watch>>

\* clear_cache()
ClearCache ==
    /\ tracker_id_to_person' = EmptyDict
    /\ logged_unknown_ids' = {}
    /\ v_op' = "clear"
    /\ v_event' = NoEvent
    /\ UNCHANGED <<matchVars, faceVars, clockVars, dbVars, trVars, obsVars, concVars,
                   storeVars, feedVars, trackVars,
                   v_callbacks, g_watch, g_first, g_logged, g_relogged>>

Frame ==
    \E reported \in SUBSET TrackIds :
        \E faces \in FaceLists :
            \E fails \in CallbackFaults(v_callbacks) :
                ProcessFrame(reported, faces, fails) /\ UNCHANGED trackVars

NextVideo == Frame \/ ClearCache

SpecVideo == InitVideo /\ [][NextVideo]_vars

\* the call just made was a process_frame that got to the watched track
WatchedInFrame == v_op' = "frame" /\ v_event'.tid = g_watch

\* C6 (as stated): once the watched track has been bound to a person, every
\* later process_frame call that reports it keeps that binding and does not call
\* recognize_face for it.
C6_BindingKeptWhileTrackPersists ==
    [][(WatchedInFrame /\ g_first # None) =>
          /\ g_watch \in DOMAIN tracker_id_to_person'
          /\ tracker_id_to_person'[g_watch].id = g_first
          /\ ~v_event'.recog]_vars

\* C6 (amended): a binding stays as it is through every call other than
\* clear_cache, and a process_frame call that reports a track bound at that
\* moment does not call recognize_face for it; clear_cache drops every binding.
C6_BindingKeptUntilClear ==
    [][/\ v_op' # "clear" =>
             \A t \in DOMAIN tracker_id_to_person :
                 /\ t \in DOMAIN tracker_id_to_person'
                 /\ tracker_id_to_person'[t] = tracker_id_to_person[t]
       /\ (WatchedInFrame /\ g_watch \in DOMAIN tracker_id_to_person) =>
             /\ v_event'.case = "bound"
             /\ ~v_event'.recog
       /\ v_op' = "clear" => tracker_id_to_person' = EmptyDict]_vars

\* a frame whose best match for the bound track is another registered person
\* left the binding as it was first made
C6_Witness ==
    /\ v_op = "frame"
    /\ v_event.tid = g_watch
    /\ v_event.case = "bound"
    /\ g_watch \in DOMAIN tracker_id_to_person
    /\ tracker_id_to_person[g_watch].id = g_first
    /\ v_event.match # None
    /\ v_event.match # g_first

\* C7: over the lifetime of the watched track and any sequence of process_frame
\* and clear_cache calls, the unknown_person_callback is invoked at most once
\* for it.
C7_UnknownLoggedOncePerTrack == ~g_relogged

\* ------------------------------------------------------------------------
\* Tracks that end: the tracker destroys the watched track and never reports
\* its id again
\* ------------------------------------------------------------------------
\* detect_faces(frame): no face, the face of E001 or of a stranger on the track
TrackFaceLists ==
    { <<>>, <<Face(BoxSame, EmbE001)>>, <<Face(BoxSame, EmbStranger)>> }

\* whom recognize_face names for the face that overlaps the box best
SeenMatch(faces, current_bbox) ==
    LET best_face == BestFace(faces, current_bbox)
    IN  IF best_face = 0 THEN None
        ELSE recognize_face(registered_faces, faces[best_face].embedding,
                            similarity_threshold).id

\* one process_frame call on the tracks the tracker still holds
FrameLive(reported, faces, fails) ==
    /\ v_dead => g_watch \notin reported
    /\ ProcessFrame(reported, faces, fails)
    /\ v_seen' = [reported |-> g_watch \in reported,
                  match |-> SeenMatch(faces, TrackBox)]
    /\ UNCHANGED v_dead

\* the tracker drops the watched track (lost for longer than its buffer)
DestroyTrack ==
    /\ ~v_dead
    /\ v_dead' = TRUE
    /\ v_op' = "destroy"
    /\ v_event' = NoEvent
    /\ UNCHANGED v_seen
    /\ UNCHANGED <<matchVars, faceVars, clockVars, dbVars, trVars, obsVars, concVars,
                   storeVars, feedVars,
                   tracker_id_to_person, logged_unknown_ids,
                   v_callbacks, g_watch, g_first, g_logged, g_relogged>>

NextTracks ==
    \/ \E reported \in SUBSET TrackIds, faces \in TrackFaceLists :
          \E fails \in CallbackFaults(v_callbacks) : FrameLive(reported, faces, fails)
    \/ DestroyTrack
    \/ ClearCache

SpecTracks == InitVideo /\ [][NextTracks]_vars

\* C21: once the tracker has destroyed the watched track, the track has no
\* entry in tracker_id_to_person and none in logged_unknown_ids.
C21_DestroyedTrackForgotten ==
    v_dead => /\ g_watch \notin DOMAIN tracker_id_to_person
              /\ g_watch \notin logged_unknown_ids

\* C23: a frame in which the watched track is reported without a binding and
\* a face overlapping it with IOU > 0.5 is recognized as a person leaves the
\* track bound to that person and has called the attendance callback for that
\* person.
C23_UnboundTrackResolvedEachFrame ==
    [][(/\ v_op' = "frame"
        /\ v_seen'.reported
        /\ v_seen'.match # None
        /\ g_watch \notin DOMAIN tracker_id_to_person) =>
          /\ g_watch \in DOMAIN tracker_id_to_person'
          /\ tracker_id_to_person'[g_watch].id = v_seen'.match
          /\ v_event'.tid = g_watch
          /\ v_event'.mark = v_seen'.match]_vars

\* ------------------------------------------------------------------------
\* core/face_recognition.py : the registry file, add and remove
\* ------------------------------------------------------------------------
\* what accessing the file raises, by the state of the file: a file that
\* cannot be opened, a file whose content does not unpickle
LoadError(state) ==
    IF state = "unreadable" THEN "PermissionError"
    ELSE IF state = "corrupt" THEN "UnpicklingError" ELSE None

\* except Exception
IsCaughtOnlyIOError(exc) == exc \in {"PermissionError", "FileNotFoundError"}

IsCaught(exc) ==
    exc \in {"PermissionError", "FileNotFoundError", "EOFError", "UnpicklingError"}

\* load_face_encodings(): the mapping returned, or the exception raised
load_face_encodings(file) ==
    IF file.state = "missing" THEN [value |-> <<>>, raised |-> FALSE]
    ELSE IF LoadError(file.state) = None
    THEN [value |-> file.data, raised |-> FALSE]
    ELSE IF IsCaught(LoadError(file.state))
    THEN [value |-> <<>>, raised |-> FALSE]
    ELSE [value |-> <<>>, raised |-> TRUE]

\* how a save goes: through; open(path, 'wb') raises and the file is as it
\* was; the write stops after open has truncated the file
SaveOutcomes == {"ok", "open_fails", "dump_fails"}

save_face_encodingsAlwaysTrue(faces, file, outcome) ==
    [file |-> IF outcome = "ok" THEN [state |-> "ok", data |-> faces]
              ELSE IF outcome = "open_fails" THEN file
              ELSE [state |-> "corrupt", data |-> <<>>],
     ret |-> TRUE]

\* save_face_encodings(): the file afterwards and the flag returned
save_face_encodings(faces, file, outcome) ==
    [file |-> IF outcome = "ok" THEN [state |-> "ok", data |-> faces]
              ELSE IF outcome = "open_fails" THEN file
              ELSE [state |-> "corrupt", data |-> <<>>],
     ret |-> outcome = "ok"]

HasFace(faces, person_id) == \E k \in 1..Len(faces) : faces[k].id = person_id

\* self.registered_faces[person_id] = {'name': name, 'encoding': encoding}
PutFace(faces, person_id, name, encoding) ==
    LET entry == [id |-> person_id, name |-> name, encoding |-> encoding]
    IN  IF HasFace(faces, person_id)
        THEN [k \in 1..Len(faces) |->
                 IF faces[k].id = person_id THEN entry ELSE faces[k]]
        ELSE Append(faces, entry)

\* del self.registered_faces[person_id]
DelFace(faces, person_id) ==
    LET Keep(entry) == entry.id # person_id IN SelectSeq(faces, Keep)

\* add_face_encoding(person_id, name, encoding)
add_face_encoding(faces, file, person_id, name, encoding, outcome) ==
    LET put == PutFace(faces, person_id, name, encoding)
        saved == save_face_encodings(put, file, outcome)
    IN  [faces |-> put, file |-> saved.file, ret |-> saved.ret]

\* remove_face_encoding(person_id)
remove_face_encoding(faces, file, person_id, outcome) ==
    IF HasFace(faces, person_id)
    THEN LET saved == save_face_encodings(DelFace(faces, person_id), file, outcome)
         IN  [faces |-> DelFace(faces, person_id), file |-> saved.file,
              ret |-> saved.ret]
    ELSE [faces |-> faces, file |-> file, ret |-> FALSE]

\* ------------------------------------------------------------------------
\* The camera feed of the two front ends: main.py (one camera, a while loop)
\* and modern_gui.py (two camera slots, a loop rescheduled with root.after)
\* ------------------------------------------------------------------------
\* most update_video_loop callbacks scheduled at once
MaxPending == 2

\* what the tracker and the detector give for one frame: nobody; track 1 with
\* the face of E001; track 1 with the face of a stranger
FeedFrames ==
    { [reported |-> {}, faces |-> <<>>],
      [reported |-> {1}, faces |-> <<Face(BoxSame, EmbE001)>>],
      [reported |-> {1}, faces |-> <<Face(BoxSame, EmbStranger)>>] }

\* what goes wrong during one iteration: nothing; a database statement fails
\* inside a callback (caught there); the attendance callback or the
\* unknown-person callback raises (no connection); get_statistics raises
FeedFaults == {"none", "caught", "mark", "unknown", "stats"}

\* the per-frame steps among them
FrameStepFaults == {"caught", "mark", "unknown"}

\* main.py passes both callbacks, modern_gui.py the attendance callback only
FeedCallbacks(front) == [mark |-> TRUE, unknown |-> front = "cli"]

\* the callback that raises during process_frame under a fault
CallbackFails(fault) == IF fault \in {"mark", "unknown"} THEN fault ELSE "none"

\* a callback was invoked during a process_frame call
Invoked(events) ==
    \E k \in 1..Len(events) : events[k].mark # None \/ events[k].unk

\* toggle_camera goes on only when not every capture failed to open
CanRunAllOpened(caps) == \A c \in Cameras : caps[c] = "open"

CanRun(caps) == \E c \in Cameras : caps[c] = "open"

\* the frame loop is going: the while loop is being executed, or is_running is
\* set and a callback is scheduled
FeedAlive == f_running /\ (f_front = "cli" \/ f_pending > 0)

\* process_frame of the VideoProcessor of camera c
ProcessCamera(bindings, logged, c, frame, callbacks, fault) ==
    process_frame(bindings[c], logged[c], frame.faces, registered_faces,
                  similarity_threshold, TrackedOf(frame.reported), callbacks,
                  CallbackFails(fault))

\* the body of update_video_loop once is_running held: got is the set of cameras
\* whose read returned a frame. after tells whether root.after was reached.
update_video_loop(caps, view, bindings, logged, got, frames, fault) ==
    LET callbacks == FeedCallbacks("gui")
        read == {c \in Cameras : caps[c] = "open"}
        do1 == view = "dashboard" /\ 1 \in got
        r1 == ProcessCamera(bindings, logged, 1, frames[1], callbacks, fault)
        raised1 == do1 /\ r1.raised
        do2 == view = "dashboard" /\ ~raised1 /\ 2 \in got
        r2 == ProcessCamera(bindings, logged, 2, frames[2], callbacks, fault)
        raised2 == do2 /\ r2.raised
        stats == view = "dashboard" /\ ~raised1 /\ ~raised2 /\ fault = "stats"
    IN  [bindings |-> [c \in Cameras |->
                          IF c = 1 /\ do1 THEN r1.bindings
                          ELSE IF c = 2 /\ do2 THEN r2.bindings ELSE bindings[c]],
         logged |-> [c \in Cameras |->
                          IF c = 1 /\ do1 THEN r1.logged
                          ELSE IF c = 2 /\ do2 THEN r2.logged ELSE logged[c]],
         read |-> read,
         got |-> got,
         processed |-> {c \in Cameras : (c = 1 /\ do1) \/ (c = 2 /\ do2)},
         failed |-> /\ fault \in FrameStepFaults
                    /\ \/ do1 /\ Invoked(r1.events)
                       \/ do2 /\ Invoked(r2.events),
         raised |-> raised1 \/ raised2 \/ stats,
         after |-> ~(raised1 \/ raised2 \/ stats)]

FeedCall(op, r) ==
    [op |-> op, raised |-> r.raised, failed |-> r.failed, read |-> r.read,
     got |-> r.got, processed |-> r.processed]

NoIteration ==
    [raised |-> FALSE, failed |-> FALSE, read |-> {}, got |-> {}, processed |-> {}]

InitFeed ==
    /\ MatchIdle
    /\ ConcIdle
    /\ VideoIdle
    /\ TrackIdle
    /\ StoreIdle
    /\ GateInit
    /\ registered_faces = VideoRegistry
    /\ similarity_threshold = SIMILARITY_THRESHOLD_TENTHS
    /\ f_front \in {"cli", "gui"}
    /\ f_running = FALSE
    /\ f_pending = 0
    /\ f_caps = [c \in Cameras |-> "none"]
    /\ f_view = "dashboard"
    /\ f_bindings = [c \in Cameras |-> EmptyDict]
    /\ f_logged = [c \in Cameras |-> {}]
    /\ f_call = NoFeedCall
    /\ f_deleted = {}

\* the inputs of one iteration over the captures caps
FeedInputs(caps) ==
    UNION { { [got |-> got, frames |-> [c \in Cameras |-> fr[c]]] :
                fr \in [Cameras -> FeedFrames] \cap
                       { f \in [Cameras -> FeedFrames] :
                           \A c \in Cameras \ got : f[c].reported = {} } } :
            got \in SUBSET {c \in Cameras : caps[c] = "open"} }

\* toggle_camera, start branch (the button is on the dashboard), with the
\* update_video_loop call it ends with
ToggleStart(opened, in, fault) ==
    /\ f_front = "gui"
    /\ ~f_running
    /\ f_view = "dashboard"
    /\ f_pending < MaxPending
    /\ LET caps == [c \in Cameras |-> IF c \in opened THEN "open" ELSE "none"]
       IN  IF ~CanRun(caps)
           THEN /\ f_caps' = caps
                /\ f_call' = FeedCall("start", NoIteration)
                /\ UNCHANGED <<f_running, f_pending, f_bindings, f_logged>>
           ELSE \E r \in {update_video_loop(caps, f_view, f_bindings, f_logged,
                                            in.got, in.frames, fault)} :
                    /\ f_caps' = caps
                    /\ f_running' = TRUE
                    /\ f_bindings' = r.bindings
                    /\ f_logged' = r.logged
                    /\ f_pending' = f_pending + (IF r.after THEN 1 ELSE 0)
                    /\ f_call' = FeedCall("start", r)
    /\ UNCHANGED <<f_front, f_view, f_deleted>>
    /\ UNCHANGED <<matchVars, faceVars, clockVars, dbVars, trVars, obsVars, concVars,
                   videoVars, storeVars, trackVars>>

\* toggle_camera, stop branch
StopCameras ==
    /\ f_running' = FALSE
    /\ f_caps' = [c \in Cameras |-> "none"]
    /\ f_call' = FeedCall("stop", NoIteration)

ToggleStop ==
    /\ f_front = "gui"
    /\ f_running
    /\ f_view = "dashboard"
    /\ StopCameras
    /\ UNCHANGED <<f_front, f_pending, f_view, f_bindings, f_logged, f_deleted>>
    /\ UNCHANGED <<matchVars, faceVars, clockVars, dbVars, trVars, obsVars, concVars,
                   videoVars, storeVars, trackVars>>

\* show_dashboard, show_records, show_registration: the last stops the cameras
ShowView(view) ==
    /\ f_front = "gui"
    /\ f_view # view
    /\ f_view' = view
    /\ IF view = "register" /\ f_running
       THEN StopCameras
       ELSE /\ f_call' = FeedCall("view", NoIteration)
            /\ UNCHANGED <<f_running, f_caps>>
    /\ UNCHANGED <<f_front, f_pending, f_bindings, f_logged, f_deleted>>
    /\ UNCHANGED <<matchVars, faceVars, clockVars, dbVars, trVars, obsVars, concVars,
                   videoVars, storeVars, trackVars>>

\* a scheduled update_video_loop callback runs
TimerFire(in, fault) ==
    /\ f_front = "gui"
    /\ f_pending > 0
    /\ IF ~f_running
       THEN /\ f_pending' = f_pending - 1
            /\ f_call' = FeedCall("idle", NoIteration)
            /\ UNCHANGED <<f_bindings, f_logged>>
       ELSE \E r \in {update_video_loop(f_caps, f_view, f_bindings, f_logged,
                                        in.got, in.frames, fault)} :
                /\ f_bindings' = r.bindings
                /\ f_logged' = r.logged
                /\ f_pending' = f_pending - 1 + (IF r.after THEN 1 ELSE 0)
                /\ f_call' = FeedCall("frame", r)
    /\ UNCHANGED <<f_front, f_running, f_caps, f_view, f_deleted>>
    /\ UNCHANGED <<matchVars, faceVars, clockVars, dbVars, trVars, obsVars, concVars,
                   videoVars, storeVars, trackVars>>

\* start_automatic_attendance up to the loop
CliStart(opened) ==
    /\ f_front = "cli"
    /\ ~f_running
    /\ f_call.op # "crash"
    /\ f_running' = opened
    /\ f_caps' = [f_caps EXCEPT ![1] = IF opened THEN "open" ELSE "none"]
    /\ f_call' = FeedCall("start", NoIteration)
    /\ UNCHANGED <<f_front, f_pending, f_view, f_bindings, f_logged, f_deleted>>
    /\ UNCHANGED <<matchVars, faceVars, clockVars, dbVars, trVars, obsVars, concVars,
                   videoVars, storeVars, trackVars>>

\* one pass of its while loop: ret of cap.read, the frame, and whether q is
\* pressed; an exception leaves the function without reaching cap.release
CliIterate(ret, frame, fault, key_q) ==
    /\ f_front = "cli"
    /\ f_running
    /\ IF ~ret
       THEN /\ f_running' = FALSE
            /\ f_caps' = [f_caps EXCEPT ![1] = "none"]
            /\ f_call' = [FeedCall("stop", NoIteration) EXCEPT !.read = {1}]
            /\ UNCHANGED <<f_bindings, f_logged>>
       ELSE \E r \in {ProcessCamera(f_bindings, f_logged, 1, frame,
                                    FeedCallbacks("cli"), fault)} :
             \E raised \in {r.raised \/ fault = "stats"} :
                /\ f_bindings' = [f_bindings EXCEPT ![1] = r.bindings]
                /\ f_logged' = [f_logged EXCEPT ![1] = r.logged]
                /\ f_running' = (~raised /\ ~key_q)
                /\ f_caps' = [f_caps EXCEPT
                                ![1] = IF ~raised /\ key_q THEN "none" ELSE @]
                /\ f_call' = [op |-> IF raised THEN "crash"
                                     ELSE IF key_q THEN "stop" ELSE "frame",
                              raised |-> raised,
                              failed |-> fault \in FrameStepFaults /\ Invoked(r.events),
                              read |-> {1}, got |-> {1}, processed |-> {1}]
    /\ UNCHANGED <<f_front, f_pending, f_view, f_deleted>>
    /\ UNCHANGED <<matchVars, faceVars, clockVars, dbVars, trVars, obsVars, concVars,
                   videoVars, storeVars, trackVars>>

\* delete_selected_person (records view): DELETE FROM persons, and when that
\* succeeded remove_face_encoding and clear_cache of the first processor
DeleteSelectedPerson(pid, deleted) ==
    /\ f_front = "gui"
    /\ f_view = "records"
    /\ IF deleted
       THEN \E r \in {remove_face_encoding(registered_faces, s_file, pid, "ok")} :
                /\ persons' = [x \in DOMAIN persons \ {pid} |-> persons[x]]
                /\ registered_faces' = r.faces
                /\ s_file' = r.file
                /\ f_bindings' = [f_bindings EXCEPT ![1] = EmptyDict]
                /\ f_logged' = [f_logged EXCEPT ![1] = {}]
                /\ f_deleted' = f_deleted \cup {pid}
       ELSE UNCHANGED <<persons, registered_faces, s_file, f_bindings, f_logged,
                        f_deleted>>
    /\ f_call' = FeedCall("delete", NoIteration)
    /\ UNCHANGED <<f_front, f_running, f_pending, f_caps, f_view>>
    /\ UNCHANGED <<matchVars, similarity_threshold, clockVars, attendance, face_logs,
                   unknown_faces, trVars, obsVars, concVars, videoVars, s_call,
                   trackVars>>

GuiStep ==
    \/ \E pid \in PersonIds, deleted \in BOOLEAN : DeleteSelectedPerson(pid, deleted)
    \/ \E opened \in SUBSET Cameras :
         \E in \in FeedInputs([c \in Cameras |->
                                 IF c \in opened THEN "open" ELSE "none"]) :
           \E fault \in FeedFaults \ {"unknown"} : ToggleStart(opened, in, fault)
    \/ ToggleStop
    \/ \E view \in {"dashboard", "records", "register"} : ShowView(view)
    \/ \E in \in FeedInputs(f_caps) :
         \E fault \in FeedFaults \ {"unknown"} : TimerFire(in, fault)

CliStep ==
    \/ \E opened \in BOOLEAN : CliStart(opened)
    \/ \E ret \in BOOLEAN, frame \in FeedFrames, fault \in FeedFaults,
          key_q \in BOOLEAN : CliIterate(ret, frame, fault, key_q)

NextFeed == GuiStep \/ CliStep

SpecFeed == InitFeed /\ [][NextFeed]_vars

\* C12: while a feed session is running, a failure of a per-frame step (raw
\* log write, attendance sync, unknown-person logging) never ends the frame
\* loop: after an iteration in which such a step failed, the loop is still going.
C12_FrameFailureKeepsLoop == f_call.failed => FeedAlive

\* C13: whenever a camera feed has stopped, on every exit path (operator stop,
\* read failure, error inside frame processing), every capture that was opened
\* for it has been released.
C13_StoppedFeedReleasesCaptures ==
    ~FeedAlive => \A c \in Cameras : f_caps[c] = "none"

\* C14: after a camera feed is stopped, tracker_id_to_person and
\* logged_unknown_ids of its VideoProcessor are empty.
C14_StoppedFeedHasEmptyCaches ==
    f_call.op = "stop" =>
        \A c \in Cameras : f_bindings[c] = EmptyDict /\ f_logged[c] = {}

\* C19: when the GUI starts the feeds, it enters the running state exactly when
\* at least one capture opened; a capture that failed to open is never read
\* from; and when one camera failed to open, the other is read and, when its
\* read gives a frame, processed.
C19_OneCameraIsEnough ==
    f_front = "gui" =>
        /\ f_call.op = "start" =>
              /\ f_running <=> \E c \in Cameras : f_caps[c] = "open"
              /\ f_running => f_call.read = {c \in Cameras : f_caps[c] = "open"}
              /\ \A c \in Cameras :
                    (f_caps[c] = "open" /\ \A d \in Cameras \ {c} : f_caps[d] = "none")
                        => (c \in f_call.got => c \in f_call.processed)
        /\ f_call.op \in {"start", "frame"} =>
              f_call.read \subseteq {c \in Cameras : f_caps[c] = "open"}

\* camera 1 failed to open, camera 2 opened: the system runs, camera 2 was read
\* and processed and the loop is scheduled again
C19_Witness ==
    /\ f_front = "gui"
    /\ f_call.op = "start"
    /\ f_caps = [c \in Cameras |-> IF c = 2 THEN "open" ELSE "none"]
    /\ f_running
    /\ f_call.read = {2}
    /\ f_call.processed = {2}
    /\ f_pending = 1

\* C25: after a person is deleted in the GUI, no VideoProcessor holds a track
\* binding to that person_id.
C25_DeletedPersonUnbound ==
    \A c \in Cameras :
        \A t \in DOMAIN f_bindings[c] : f_bindings[c][t].id \notin f_deleted

\* C30: in the GUI at most one update_video_loop callback is scheduled at any
\* time.
C30_OneLoopChain == f_pending <= 1

\* ------------------------------------------------------------------------
\* The face registry and its file: load, save, add, remove, reload
\* ------------------------------------------------------------------------
\* names given at registration
StoreNames == {"Asha", "Ravi"}

\* encodings given at registration
StoreEncodings == {EmbE001, EmbE002}

\* the file when the handler is constructed
StoreFiles ==
    { [state |-> "missing", data |-> <<>>],
      [state |-> "ok", data |-> VideoRegistry],
      [state |-> "corrupt", data |-> <<>>] }

\* FaceRecognitionHandler.__init__
InitStore ==
    /\ MatchIdle
    /\ ConcIdle
    /\ VideoIdle
    /\ TrackIdle
    /\ FeedIdle
    /\ GateInit
    /\ s_file \in StoreFiles
    /\ registered_faces = load_face_encodings(s_file).value
    /\ similarity_threshold = SIMILARITY_THRESHOLD_TENTHS
    /\ s_call = NoStoreCall

StoreRest ==
    UNCHANGED <<matchVars, similarity_threshold, clockVars, dbVars, trVars, obsVars,
                concVars, videoVars, feedVars, trackVars>>

AddFaceEncoding(person_id, name, encoding, outcome) ==
    /\ \E r \in {add_face_encoding(registered_faces, s_file, person_id, name,
                                   encoding, outcome)} :
          /\ registered_faces' = r.faces
          /\ s_file' = r.file
          /\ s_call' = [op |-> "add", pid |-> person_id, ret |-> r.ret,
                        raised |-> FALSE]
    /\ StoreRest

RemoveFaceEncoding(person_id, outcome) ==
    /\ \E r \in {remove_face_encoding(registered_faces, s_file, person_id, outcome)} :
          /\ registered_faces' = r.faces
          /\ s_file' = r.file
          /\ s_call' = [op |-> "remove", pid |-> person_id, ret |-> r.ret,
                        raised |-> FALSE]
    /\ StoreRest

\* reload_face_encodings()
ReloadFaceEncodings ==
    /\ \E r \in {load_face_encodings(s_file)} :
          /\ registered_faces' = IF r.raised THEN registered_faces ELSE r.value
          /\ s_call' = [op |-> "reload", pid |-> None, ret |-> ~r.raised,
                        raised |-> r.raised]
    /\ UNCHANGED s_file
    /\ StoreRest

\* the file is lost, damaged or made unreadable from outside the program
FileDamaged(state) ==
    /\ s_file.state # state
    /\ s_file' = [state |-> state, data |-> <<>>]
    /\ s_call' = [op |-> "damage", pid |-> None, ret |-> FALSE, raised |-> FALSE]
    /\ UNCHANGED registered_faces
    /\ StoreRest

NextStore ==
    \/ \E person_id \in PersonIds, name \in StoreNames, encoding \in StoreEncodings,
          outcome \in SaveOutcomes :
            AddFaceEncoding(person_id, name, encoding, outcome)
    \/ \E person_id \in PersonIds, outcome \in SaveOutcomes :
            RemoveFaceEncoding(person_id, outcome)
    \/ ReloadFaceEncodings
    \/ \E state \in {"missing", "corrupt", "unreadable"} : FileDamaged(state)

SpecStore == InitStore /\ [][NextStore]_vars

\* C15: remove_face_encoding(person_id) returns True exactly when person_id was
\* in the registry, False exactly when it was not, and afterwards the id is not
\* in the in-memory registry.
C15_RemoveReturnsWhetherRemoved ==
    [][s_call'.op = "remove" =>
          /\ s_call'.ret <=> HasFace(registered_faces, s_call'.pid)
          /\ ~HasFace(registered_faces', s_call'.pid)]_vars

C17_FailedSaveKeepsFile ==
    [][(s_call'.op \in {"add", "remove"} /\ ~s_call'.ret) =>
          load_face_encodings(s_file').value \in
              {load_face_encodings(s_file).value, registered_faces'}]_vars

\* C18: load_face_encodings never raises; it returns the persisted mapping when
\* the file exists and deserializes, and the empty mapping otherwise.
C18_LoadFailsSoft ==
    s_call.op = "reload" =>
        /\ ~s_call.raised
        /\ registered_faces = IF s_file.state = "ok" THEN s_file.data ELSE <<>>

\* reload_face_encodings met a file that does not unpickle and left the
\* registry empty
C18_Witness ==
    /\ s_call.op = "reload"
    /\ s_file.state = "corrupt"
    /\ ~s_call.raised
    /\ registered_faces = <<>>

\* ------------------------------------------------------------------------
\* sync_daily_attendance around midnight, with its two reads of the clock:
\* date.today() and then datetime.now()
\* ------------------------------------------------------------------------
\* the seconds of the runs: 23:59:58 to 00:00:01 of the next day
DayFirst == SecondsPerDay - 2
DayLast == SecondsPerDay + 1

InitDay ==
    /\ FaceIdle
    /\ MatchIdle
    /\ ConcIdle
    /\ VideoIdle
    /\ TrackIdle
    /\ StoreIdle
    /\ FeedIdle
    /\ now = DayFirst
    /\ clk = 1
    /\ faults = 0
    /\ persons \in PersonTables
    /\ attendance = <<>>
    /\ face_logs = <<>>
    /\ unknown_faces = 0
    /\ last_log_time = EmptyDict
    /\ last_attendance_time = EmptyDict
    /\ last_unknown_alert_time = 0
    /\ g_call = IdleCall("init")
    /\ g_sync_ts = [p \in PersonIds |-> NoTime]
    /\ g_raw_ts = [p \in PersonIds |-> NoTime]
    /\ g_alert_ts = NoTime

DayRest ==
    UNCHANGED <<matchVars, faceVars, clk, faults, persons, face_logs, unknown_faces,
                trVars, g_sync_ts, g_raw_ts, g_alert_ts, concVars, videoVars,
                storeVars, feedVars, trackVars>>

\* a second passes with no call
TickDay ==
    /\ now < DayLast
    /\ now' = now + 1
    /\ g_call' = IdleCall("tick")
    /\ UNCHANGED attendance
    /\ DayRest

\* sync_daily_attendance(person_id): date.today() is read at second now,
\* datetime.now() in the same second or, when late, in the next one
SyncDay(person_id, late) ==
    /\ late => now < DayLast
    /\ LET t == IF late THEN now + 1 ELSE now
           r == IF person_id \notin DOMAIN persons
                THEN [attendance |-> attendance,
                      msg |-> Msg("Error: Person not found", <<0, 0, 0>>, <<>>)]
                ELSE SyncWriteOn(persons, attendance, person_id, persons[person_id],
                                 SelectAttendance(attendance, person_id, Today(now)),
                                 Today(now), t)
       IN  /\ now' = t
           /\ attendance' = r.attendance
           /\ g_call' = [IdleCall("sync") EXCEPT !.pid = person_id, !.sync = TRUE,
                                                 !.msg = r.msg]
    /\ DayRest

NextDay ==
    \/ TickDay
    \/ \E person_id \in PersonIds, late \in BOOLEAN : SyncDay(person_id, late)

SpecDay == InitDay /\ [][NextDay]_vars

\* a <= b for times of day <<hour, minute, second>>, the order of 'HH:MM:SS'
TimeLE(a, b) ==
    \/ a[1] < b[1]
    \/ a[1] = b[1] /\ a[2] < b[2]
    \/ a[1] = b[1] /\ a[2] = b[2] /\ a[3] <= b[3]

\* C20: for every attendance row, leaving_time never decreases from one sync to
\* the next and is never before arrival_time; a sync that found the row leaves
\* it with the time of that sync.
C20_LeavingTimeMonotone ==
    [][\A k \in 1..Len(attendance') :
          /\ TimeLE(attendance'[k].arrival_time, attendance'[k].leaving_time)
          /\ k <= Len(attendance) =>
                TimeLE(attendance[k].leaving_time, attendance'[k].leaving_time)
          /\ (/\ g_call'.op = "sync"
              /\ k <= Len(attendance)
              /\ attendance[k].person_id = g_call'.pid
              /\ attendance[k].date = Today(now))
             => attendance'[k].leaving_time = Strftime(now')]_vars

\* ---------------------------------------------------------------------------
\* Registration and deletion: the persons table and the face registry
\* ---------------------------------------------------------------------------

\* how a statement on the persons table goes: through; an error other than a
\* refused connection, caught and reported as failure; the connection refused,
\* after which the finally clause raises on the unbound conn
DbOutcomes == {"ok", "error", "connect"}

\* the person_ids of a registry mapping
FaceIds(faces) == {faces[k].id : k \in 1..Len(faces)}

\* the program starts with a table and a registry that agree: nobody
\* registered and no file, or E001 registered and saved
InitReg ==
    /\ MatchIdle
    /\ ConcIdle
    /\ VideoIdle
    /\ TrackIdle
    /\ FeedIdle
    /\ now = StartTime
    /\ clk = 1
    /\ faults = 0
    /\ attendance = <<>>
    /\ face_logs = <<>>
    /\ unknown_faces = 0
    /\ last_log_time = EmptyDict
    /\ last_attendance_time = EmptyDict
    /\ last_unknown_alert_time = 0
    /\ g_call = IdleCall("init")
    /\ g_sync_ts = [p \in PersonIds |-> NoTime]
    /\ g_raw_ts = [p \in PersonIds |-> NoTime]
    /\ g_alert_ts = NoTime
    /\ similarity_threshold = SIMILARITY_THRESHOLD_TENTHS
    /\ s_call = NoStoreCall
    /\ \/ /\ persons = EmptyDict
          /\ s_file = [state |-> "missing", data |-> <<>>]
       \/ /\ persons = [p \in {"E001"} |-> ShiftEnd1800]
          /\ s_file = [state |-> "ok", data |-> SubSeq(VideoRegistry, 1, 1)]
    /\ registered_faces = load_face_encodings(s_file).value

\* perform_registration(): a face was extracted or not; the duplicate test;
\* add_person; on success add_face_encoding, its result not looked at
PerformRegistration(pid, name, encoding, extracted, db, outcome) ==
    /\ LET match == recognize_face(registered_faces, encoding, similarity_threshold)
           duplicate == match.id # None /\ SimGT(match.sim, ThresholdSim(5))
           success == db = "ok" /\ pid \notin DOMAIN persons
           called == extracted /\ ~duplicate
       IN  /\ IF called /\ success
              THEN \E r \in {add_face_encoding(registered_faces, s_file, pid, name,
                                               encoding, outcome)} :
                      /\ persons' = [x \in DOMAIN persons \cup {pid} |->
                                        IF x = pid THEN ShiftEnd1800 ELSE persons[x]]
                      /\ registered_faces' = r.faces
                      /\ s_file' = r.file
              ELSE UNCHANGED <<persons, registered_faces, s_file>>
           /\ s_call' = [op |-> "register", pid |-> pid, ret |-> called /\ success,
                         raised |-> called /\ db = "connect"]
    /\ UNCHANGED <<matchVars, similarity_threshold, clockVars, attendance, face_logs,
                   unknown_faces, trVars, obsVars, concVars, videoVars, feedVars,
                   trackVars>>

\* RegistrationModule.delete_person(): database delete_person, which succeeds
\* whether or not a row matched; on success remove_face_encoding, its result
\* not looked at
DeletePerson(person_id, db, outcome) ==
    /\ IF db = "ok"
       THEN \E r \in {remove_face_encoding(registered_faces, s_file, person_id,
                                           outcome)} :
               /\ persons' = [x \in DOMAIN persons \ {person_id} |-> persons[x]]
               /\ registered_faces' = r.faces
               /\ s_file' = r.file
       ELSE UNCHANGED <<persons, registered_faces, s_file>>
    /\ s_call' = [op |-> "delete", pid |-> person_id, ret |-> db = "ok",
                  raised |-> db = "connect"]
    /\ UNCHANGED <<matchVars, similarity_threshold, clockVars, attendance, face_logs,
                   unknown_faces, trVars, obsVars, concVars, videoVars, feedVars,
                   trackVars>>

NextReg ==
    \/ \E pid \in PersonIds, name \in StoreNames, encoding \in StoreEncodings,
          extracted \in BOOLEAN, db \in DbOutcomes, outcome \in SaveOutcomes :
            PerformRegistration(pid, name, encoding, extracted, db, outcome)
    \/ \E person_id \in PersonIds, db \in DbOutcomes, outcome \in SaveOutcomes :
            DeletePerson(person_id, db, outcome)

SpecReg == InitReg /\ [][NextReg]_vars

\* C26: after any sequence of registrations and deletions, failed database
\* writes and failed registry saves included, the person_ids of the registry,
\* in memory and as read back from its file, are the person_ids of the persons
\* table.
C26_StoreMatchesPersons ==
    /\ FaceIds(registered_faces) = DOMAIN persons
    /\ FaceIds(load_face_encodings(s_file).value) = DOMAIN persons

====
